---- MODULE Spec2Model ----
(***************************************************************************)
(* State-machine model of the WTTP handler (wttp-handler-v3).              *)
(*                                                                         *)
(* The repository carries three generations of the WttpHandler class:      *)
(*   - the handler of src/src/index.ts (HEAD first, then GET; the response *)
(*     conversion parseWttpResponse is a stub), modelled by the Index*     *)
(*     actions and checked under SpecIndex;                                *)
(*   - the handler with an instance redirect counter (src/unnamed/part_005,*)
(*     built on utils/wttpMethods.ts), modelled by the Counter* actions    *)
(*     and checked under SpecCounter (one caller, every request shape) and *)
(*     SpecConcurrent (several callers interleaved at their await points). *)
(*   - the handler of src/unnamed/part_012 (probes inline, recursion on    *)
(*     an explicit 'follow'), modelled by the Legacy* actions and checked  *)
(*     under SpecLegacy.                                                   *)
(* The module-level fetch of src/unnamed/part_004 is modelled by the       *)
(* Module* actions (SpecModule), and the header synthesis of index.ts and  *)
(* part_004 by the actions of SpecHeaders.                                 *)
(* A call is one top-level fetch(); its position between two awaits is pc. *)
(***************************************************************************)
EXTENDS Integers, Sequences, FiniteSets, TLC

VARIABLES
    calls,          \* the top-level fetch calls of each caller
    redirectCount,  \* the handler's instance field of that name
    site            \* the deployed resources: the status codes they answer
                    \* with and the redirect locations they declare

vars == <<calls, redirectCount, site>>

(***************************************************************************)
(* Bounds of the model.                                                    *)
(***************************************************************************)
\* number of callers that may be inside fetch() at the same time
MaxCalls == 2
\* redirect hops of one fetch that the model keeps following, for the handler
\* with the redirect counter
MaxHops == 23
\* the same for the handler of part_012, which has no hop limit of its own
MaxChain == 4

(***************************************************************************)
(* Program constants.                                                      *)
(***************************************************************************)
MAX_REDIRECTS == 20

(***************************************************************************)
(* URLs, locations, protocol responses.                                    *)
(***************************************************************************)
Host == "0x36C0"

\* a host segment that is neither an address nor a resolvable name
BadHost == "not-an-address"

\* the same address written in lower case, and without the 0x prefix
LowerHost == "0x36c0"

BareHost == "36c0"

\* a name of the name service
NameHost == "site.eth"

\* a host of the web
ExampleHost == "example.com"

\* isHexString(host): the text starts with 0x
IsHexString(host) == host \in {Host, LowerHost}

\* new URL("http://" + host + ...): a host that reads as a number (0x and hex
\* digits) is parsed as an IPv4 address, and 40 hex digits are out of range
HttpUrlParses(host) == ~IsHexString(host)

\* the scheme of a URL; the URLs written without one are wttp: URLs
Scheme(url) == IF "scheme" \in DOMAIN url THEN url.scheme ELSE "wttp"

\* the schemes whose host is parsed as a domain or an IPv4 address
SpecialSchemes == {"http", "https", "ftp"}

\* <scheme>://<host>/page.html for the schemes a caller may write
SchemeUrls ==
    { [scheme |-> sch, host |-> ExampleHost, port |-> [text |-> "", value |-> -1],
       path |-> <<"page.html">>] : sch \in {"http", "https", "httpx", "ftp", "ipfs"} }
    \cup
    { [scheme |-> sch, host |-> Host, port |-> [text |-> "", value |-> -1],
       path |-> <<"page.html">>] : sch \in {"wttp", "wttps"} }

\* the network selector of a URL: the text between ":" and the path, and its
\* value when the text is a decimal number (-1 otherwise)
NoPort == [text |-> "", value |-> -1]

\* wttp://<Host>/path/to/page.html, wttp://<Host>/page.html and a URL whose
\* host is not an address
StartUrls ==
    { [host |-> Host, port |-> NoPort, path |-> <<"path", "to", "page.html">>],
      [host |-> Host, port |-> NoPort, path |-> <<"page.html">>],
      [host |-> BadHost, port |-> NoPort, path |-> <<"page.html">>] }

\* the URLs of the same resources under a name, and /page.html under the
\* other spellings of the address
NamedUrls ==
    { [host |-> NameHost, port |-> NoPort, path |-> <<"path", "to", "page.html">>],
      [host |-> NameHost, port |-> NoPort, path |-> <<"page.html">>] }

SpelledUrls ==
    { [host |-> h, port |-> NoPort, path |-> <<"page.html">>] :
         h \in {LowerHost, BareHost} }

NoLocation == [abs |-> "", rooted |-> FALSE, segs |-> <<>>]

\* the strings a resource may declare in redirect.location
Locations ==
    { NoLocation,
      [abs |-> "", rooted |-> FALSE, segs |-> <<".", "resource.html">>],
      [abs |-> "", rooted |-> FALSE, segs |-> <<"..", "resource.html">>],
      [abs |-> "", rooted |-> TRUE,  segs |-> <<"resource.html">>],
      [abs |-> "", rooted |-> FALSE, segs |-> <<"page.html">>] }

\* status codes the gateway contract may answer with
Codes == {0, 200, 404, 500} \cup (300..308) \cup {399}

\* the statuses the 404 probe may come back with
ProbeCodes == {200, 404}

Methods == {"", "GET", "HEAD", "POST", "PUT", "DELETE", "PATCH", "OPTIONS"}

RedirectPolicies == {"", "follow", "manual", "error"}

\* request bodies: undefined or some payload
RequestBodies == {"undefined", "payload"}

\* the path algorithm of the URL parser: "." and ".." segments are resolved,
\* a trailing "." or ".." leaves an empty last segment
RECURSIVE NormalizePath(_, _)
NormalizePath(acc, segs) ==
    IF segs = <<>> THEN acc
    ELSE LET s == Head(segs)
             last == Len(segs) = 1
         IN  IF s = ".."
             THEN NormalizePath(
                    (IF acc = <<>> THEN <<>> ELSE SubSeq(acc, 1, Len(acc) - 1))
                      \o (IF last THEN <<"">> ELSE <<>>), Tail(segs))
             ELSE IF s = "."
             THEN NormalizePath(acc \o (IF last THEN <<"">> ELSE <<>>), Tail(segs))
             ELSE NormalizePath(Append(acc, s), Tail(segs))

\* new URL(location, base)
ResolveUrl(loc, base) ==
    IF loc.abs # ""
    THEN [host |-> loc.abs, port |-> NoPort, path |-> NormalizePath(<<>>, loc.segs)]
    ELSE IF loc.rooted
    THEN [host |-> base.host, port |-> base.port,
          path |-> NormalizePath(<<>>, loc.segs)]
    ELSE IF loc.segs = <<>> THEN base
    ELSE [host |-> base.host, port |-> base.port,
          path |-> NormalizePath(
                     IF base.path = <<>> THEN <<>>
                     ELSE SubSeq(base.path, 1, Len(base.path) - 1), loc.segs)]

(***************************************************************************)
(* Network selection.                                                      *)
(***************************************************************************)
\* the selectors a caller may write after the host
Selectors ==
    { NoPort,
      [text |-> "leth", value |-> -1], [text |-> "31337", value |-> 31337],
      [text |-> "seth", value |-> -1], [text |-> "11155111", value |-> 11155111],
      [text |-> "eth", value |-> -1], [text |-> "1", value |-> 1],
      [text |-> "9999", value |-> 9999], [text |-> "999999", value |-> 999999] }

\* wttp://<Host>:<selector>/page.html
NetworkUrls ==
    { [host |-> Host, port |-> sel, path |-> <<"page.html">>] : sel \in Selectors }

\* the keys of config.networks in wttp.config.ts
ShippedNetworks == {"localhost", "sepolia", "mainnet"}

\* a networks table that also has an entry under the key 0
IndexedNetworks == ShippedNetworks \cup {"0"}

\* the networks tables a handler may be constructed with
Configs == {ShippedNetworks, IndexedNetworks}

\* String(config.networks[Object.keys(config.networks)[0]].chainId)
FirstChainId == [text |-> "31337", value |-> 31337]

\* what a lookup of a missing key gives
Undefined == "undefined"

\* networks[key]: the entry is named by its key
Lookup(networks, key) == IF key \in networks THEN key ELSE Undefined

\* new URL(string): a port must be a decimal number up to 65535
UrlParses(url) ==
    /\ url.port = NoPort \/ url.port.value \in 0..65535
    /\ Scheme(url) \in SpecialSchemes => HttpUrlParses(url.host)

\* url.port = text: the setter leaves the port alone unless the text is a
\* decimal number up to 65535
SetPort(port, new) == IF new.value \in 0..65535 THEN new ELSE port

\* getNetworkAlias of utils/wttpMethods.ts
getNetworkAlias(alias) ==
    CASE alias \in {"leth", "local", "31337"} -> "localhost"
      [] alias \in {"seth", "11155111"} -> "sepolia"
      [] alias \in {"eth", "1"} -> "mainnet"
      [] OTHER -> alias

\* the private getNetworkAlias of the handler classes (index.ts, part_012)
HandlerNetworkAlias(alias) ==
    CASE alias \in {"leth", "31337"} -> "localhost"
      [] alias \in {"seth", "11155111"} -> "sepolia"
      [] alias \in {"eth", "1"} -> "mainnet"
      [] OTHER -> alias

\* the alias as a port: the port itself when the table has no entry for it,
\* a name otherwise
AliasAsPort(port, alias) ==
    IF alias = port.text THEN port ELSE [text |-> alias, value |-> -1]

\* getWttpUrl / getGatewayAddress: the network whose gateway the descriptor
\* carries; the port defaults to the chain id of the first network
GatewayNetwork(url) ==
    LET networkName == IF url.port = NoPort THEN FirstChainId ELSE url.port
        port == SetPort(url.port, networkName)
    IN  Lookup(ShippedNetworks, getNetworkAlias(port.text))

\* validateWttpUrl of index.ts: networks[0] by default; with a port, the alias
\* is assigned to url.port and the table is read at url.port
IndexNetwork(url, networks) ==
    IF url.port = NoPort THEN Lookup(networks, "0")
    ELSE LET port == SetPort(url.port,
                             AliasAsPort(url.port, HandlerNetworkAlias(url.port.text)))
         IN  Lookup(networks, port.text)

\* parseWttpUrl of part_012: networks[0] by default, networks[alias] with a port
LegacyNetwork(url, networks) ==
    IF url.port = NoPort THEN Lookup(networks, "0")
    ELSE Lookup(networks, HandlerNetworkAlias(url.port.text))

(***************************************************************************)
(* Host resolution.                                                        *)
(***************************************************************************)
\* ethers.getAddress(host) succeeds: 40 hex digits with or without 0x, all in
\* one case or with the checksum's case
IsAddress(host) == host \in {Host, LowerHost, BareHost}

\* ethers.getAddress(host): the checksummed form
getAddress(host) == Host

\* host.endsWith('.eth')
IsName(host) == host = NameHost

\* hostname of a URL with a special scheme: lower case
ToLowerCase(host) == IF host = Host THEN LowerHost ELSE host

\* what provider.resolveName gives: an address, null, or a failed call
Resolutions == {"address", "null", "throws"}

\* the host a resolution step could not produce
NoHost == ""

\* the name resolved, or left as it is when resolveName gave null
ResolvedName(host, resolution) == IF resolution = "address" THEN Host ELSE host

\* getHostAddress of utils/wttpMethods.ts: resolveEnsName for a name (null
\* and a failed call both throw), formatEthereumAddress otherwise
GatewayHost(host, resolution) ==
    IF IsName(host)
    THEN IF resolution = "address" THEN Host ELSE NoHost
    ELSE IF IsAddress(host) THEN getAddress(host) ELSE NoHost

\* validateWttpUrl of index.ts: a name is resolved through the network's first
\* RPC endpoint; whatever the host is then goes through ethers.getAddress
IndexHost(host, network, resolution) ==
    IF IsName(host) /\ (network = Undefined \/ resolution = "throws")
    THEN NoHost
    ELSE LET named == IF IsName(host) THEN ResolvedName(host, resolution) ELSE host
         IN  IF IsAddress(named) THEN getAddress(named) ELSE NoHost

\* parseWttpUrl of part_012: the hostname is read from the URL re-parsed as
\* http://; a name is resolved and kept as it is when resolveName gave null;
\* any other host must pass ethers.getAddress, whose result is dropped
LegacyHost(host, network, resolution) ==
    IF ~HttpUrlParses(host) THEN NoHost
    ELSE LET hostname == ToLowerCase(host)
         IN  IF IsName(hostname)
             THEN IF network = Undefined \/ resolution = "throws" THEN NoHost
                  ELSE ResolvedName(hostname, resolution)
             ELSE IF IsAddress(hostname) THEN hostname ELSE NoHost

(***************************************************************************)
(* Response objects.                                                       *)
(***************************************************************************)
NoBody == [kind |-> "null", src |-> <<>>]

\* the bytes the gateway returns for a resource: none ("0x") or its content
Payloads(url) == { [kind |-> "empty", src |-> <<>>], [kind |-> "data", src |-> url.path] }

NoResult ==
    [kind |-> "none", status |-> 0, body |-> NoBody, location |-> NoLocation,
     error |-> ""]

\* a resolved Response
Resolved(status, body, location) ==
    [kind |-> "response", status |-> status, body |-> body, location |-> location,
     error |-> ""]

\* a rejected promise and the error it carries
Rejected(error) ==
    [kind |-> "rejected", status |-> 0, body |-> NoBody, location |-> NoLocation,
     error |-> error]

ErrorBody == [kind |-> "error", src |-> <<>>]

\* the body of a Response of the platform fetch
PlatformBody == [kind |-> "platform", src |-> <<>>]

\* fetch(url, options) of the platform: a Response, or a rejection; a scheme
\* other than http and https is always rejected
PlatformOutcomes(scheme) ==
    { Rejected("fetch failed") } \cup
    IF scheme \in {"http", "https"}
    THEN { Resolved(status, PlatformBody, NoLocation) : status \in {200, 404} }
    ELSE {}

\* new Response("Not Implemented", { status: 505 })
error505Response == Resolved(505, ErrorBody, NoLocation)

\* the branch fetch of index.ts takes: url.protocol.startsWith(...)
IndexBranch(scheme) ==
    CASE scheme \in {"http", "https", "httpx"} -> "http"
      [] scheme \in {"wttp", "wttps"} -> "wttp"
      [] scheme = "ipfs" -> "ipfs"
      [] OTHER -> "505"

\* the branch fetch of part_005 takes: switch (url.protocol)
CounterBranch(scheme) ==
    CASE scheme = "wttp" -> "wttp"
      [] scheme \in {"http", "https"} -> "http"
      [] OTHER -> "505"

\* the branch fetch of part_012 takes: urlString.startsWith("http"),
\* ("wttp://"), ("ipfs://")
LegacyBranch(scheme) ==
    CASE scheme \in {"http", "https", "httpx"} -> "http"
      [] scheme = "wttp" -> "wttp"
      [] scheme = "ipfs" -> "ipfs"
      [] OTHER -> "505"

\* what fetch returns at once for a branch other than wttp
Dispatched(branch, scheme) ==
    CASE branch = "http" -> PlatformOutcomes(scheme)
      [] branch = "ipfs" -> { Rejected("IPFS protocol not implemented") }
      [] OTHER -> { error505Response }

\* statuses for which the Response constructor refuses a body
NullBodyStatus == {101, 103, 204, 205, 304}

\* new Response(body, {status}): throws RangeError when the status is outside
\* 200..599 and TypeError when a body is given with a null-body status
ResponseThrows(body, status) ==
    \/ status < 200
    \/ status > 599
    \/ (body.kind # "null" /\ status \in NullBodyStatus)

(***************************************************************************)
(* Calls.                                                                  *)
(***************************************************************************)
\* the value of probed after a probe call that failed
CallFailed == -2

\* a resource call through the gateway that failed outright, and whether the
\* gateway and the host would pass their probes at that moment
NoFailure == [failed |-> FALSE, gateway |-> TRUE, host |-> TRUE]

Failure(gatewayPasses, hostPasses) ==
    [failed |-> TRUE, gateway |-> gatewayPasses, host |-> hostPasses]

\* the request line of a protocol request: its method code
NoRequest == [method |-> -1]

\* headRequest of the handler classes (index.ts, part_012)
headRequest == [method |-> 0]

\* getRequest of the handler classes: { head: headRequest, rangeBytes }
getRequest == [head |-> headRequest]

\* headReq of wttpHead
headReq == [method |-> 0]

\* getReq of wttpGet
getReq == [head |-> [method |-> 1]]

\* new Headers(): the headers the conversions set, each the sequence of the
\* items its value is joined from; an empty sequence is a header not set
NoHeaders ==
    [contentType |-> <<>>, etag |-> <<>>, cacheControl |-> <<>>, allow |-> <<>>,
     wttpError |-> <<>>]

\* the arguments of a top-level fetch(url, init)
Requests == [url : StartUrls, method : Methods, body : RequestBodies,
             redirect : RedirectPolicies]

\* a caller that has not called fetch yet; args is the call it will make
IdleCall(args) ==
    [pc |-> "idle", args |-> args,
     url |-> args.url, method |-> args.method, body |-> args.body,
     hops |-> 0, visited |-> {}, revisit |-> FALSE, expected |-> args.url,
     raw |-> -1, seen |-> -1, declared |-> NoLocation, probes |-> 0, heads |-> 0, gets |-> 0,
     host |-> NoHost, network |-> "", probed |-> -1, aborted |-> FALSE,
     sent |-> NoRequest.method, headers |-> NoHeaders, attribution |-> NoFailure,
     result |-> NoResult]

Callers == DOMAIN calls

\* (options.method || 'GET').toUpperCase()
EffectiveMethod(method) == IF method = "" THEN "GET" ELSE method

\* options.redirect || 'follow'
EffectivePolicy(redirect) == IF redirect = "" THEN "follow" ELSE redirect

(***************************************************************************)
(* The handler with an instance redirect counter (src/unnamed/part_005).   *)
(***************************************************************************)
\* shouldRedirect(statusCode, options)
shouldRedirect(statusCode, redirect) ==
    IF EffectivePolicy(redirect) \in {"manual", "error"} THEN FALSE
    ELSE statusCode \in {301, 302, 303, 307, 308}

\* getLocationFromRedirect(response): a placeholder, whatever the response
getLocationFromRedirect(response) ==
    [abs |-> "", rooted |-> FALSE, segs |-> <<"redirect-location-placeholder">>]

\* handleRedirect with 307 handled like 301 and 302
RedirectOptionsDowngrading307(statusCode, method, body) ==
    IF \/ statusCode = 303
       \/ (statusCode \in {301, 302, 307} /\ method \in {"POST", "PUT", "DELETE"})
    THEN [method |-> "GET", body |-> "undefined"]
    ELSE [method |-> method, body |-> body]

\* the options handleRedirect passes on to the next fetch
RedirectOptions(statusCode, method, body) ==
    IF \/ statusCode = 303
       \/ (statusCode \in {301, 302} /\ method \in {"POST", "PUT", "DELETE"})
    THEN [method |-> "GET", body |-> "undefined"]
    ELSE [method |-> method, body |-> body]

\* createResponseFromHeadResponse / createResponseFromGetResponse inside the
\* try block of handleHeadRequest / handleGetRequest: a throwing Response
\* constructor ends in the catch block's 500 response
createResponse(body, statusCode) ==
    IF ResponseThrows(body, statusCode)
    THEN Resolved(500, ErrorBody, NoLocation)
    ELSE Resolved(statusCode, body, NoLocation)

\* fetch(input, init): new URL(input) throws on a string that is not a URL;
\* wttp: goes to handleWttpRequest, which awaits validateWttpUrl
CounterFetch(c) ==
    LET url == calls[c].args.url
        branch == CounterBranch(Scheme(url))
    IN  /\ calls[c].pc = "idle"
        /\ \E outcome \in Dispatched(branch, Scheme(url)) :
              calls' = [calls EXCEPT ![c] =
                 IF ~UrlParses(url)
                 THEN [IdleCall(calls[c].args) EXCEPT !.pc = "done",
                                                      !.result = Rejected("Invalid URL")]
                 ELSE IF branch = "wttp"
                 THEN [IdleCall(calls[c].args) EXCEPT !.pc = "validate",
                                                      !.visited = {url}]
                 ELSE [IdleCall(calls[c].args) EXCEPT !.pc = "done",
                                                      !.result = outcome]]
    /\ UNCHANGED <<redirectCount, site>>

\* validateWttpUrl returns the descriptor of getWttpUrl or throws (a host that
\* is not an address, a network without an entry in the table);
\* handleWttpRequest dispatches on the method
CounterValidateWttpUrl(c) ==
    LET call == calls[c]
        method == EffectiveMethod(call.method)
        network == GatewayNetwork(call.url)
    IN  /\ call.pc = "validate"
        /\ \E resolution \in Resolutions :
              LET host == GatewayHost(call.url.host, resolution)
              IN  calls' = [calls EXCEPT ![c] =
                    IF host = NoHost \/ network = Undefined
                    THEN [call EXCEPT !.pc = "done",
                                      !.result = Resolved(500, ErrorBody, NoLocation)]
                    ELSE IF method \in {"HEAD", "GET", "POST", "PUT", "DELETE", "PATCH"}
                    THEN [call EXCEPT !.pc = "loadHost", !.network = network,
                                      !.host = host, !.url.host = host]
                    ELSE [call EXCEPT !.pc = "done", !.network = network,
                                      !.host = host, !.url.host = host,
                                      !.result = Resolved(405, ErrorBody, NoLocation)]]
        /\ UNCHANGED <<redirectCount, site>>

\* loadWttpHost: the probe against the content host; only a failed call
\* counts, the status it answers with is not read
CounterLoadWttpHost(c) ==
    LET call == calls[c]
    IN  /\ call.pc = "loadHost"
        /\ \E throws \in BOOLEAN, code \in site.probeCodes :
              calls' = [calls EXCEPT ![c] =
                 IF ~throws
                 THEN [call EXCEPT !.pc = "loadGateway", !.probes = @ + 1,
                                   !.probed = code]
                 ELSE [call EXCEPT !.pc = "done", !.probes = @ + 1,
                                   !.probed = CallFailed,
                                   !.result = Resolved(500, ErrorBody, NoLocation)]]
        /\ UNCHANGED <<redirectCount, site>>

\* loadWttpGateway: the probe against the gateway, read the same way
CounterLoadWttpGateway(c) ==
    LET call == calls[c]
    IN  /\ call.pc = "loadGateway"
        /\ \E throws \in BOOLEAN, code \in site.probeCodes :
              calls' = [calls EXCEPT ![c] =
                 IF ~throws
                 THEN [call EXCEPT !.pc = "request", !.probes = @ + 1,
                                   !.probed = code]
                 ELSE [call EXCEPT !.pc = "done", !.probes = @ + 1,
                                   !.probed = CallFailed,
                                   !.result = Resolved(500, ErrorBody, NoLocation)]]
        /\ UNCHANGED <<redirectCount, site>>

\* handleRedirect with the counter left as it is at the limit
NextRedirectCountKeeping(count) == count + 1

\* handleRedirect: this.redirectCount++, and back to 0 when it has passed
\* MAX_REDIRECTS
NextRedirectCount(count) == IF count + 1 > MAX_REDIRECTS THEN 0 ELSE count + 1

\* what handleHeadRequest / handleGetRequest do with the protocol response:
\* handleRedirect when shouldRedirect says so, a Response otherwise
CounterHandle(c, code, data, failure) ==
    LET call == calls[c]
        isHead == EffectiveMethod(call.method) = "HEAD"
        seenCall == [call EXCEPT !.raw = code, !.seen = code,
                                 !.heads = IF isHead THEN @ + 1 ELSE @,
                                 !.gets = IF isHead THEN @ ELSE @ + 1,
                                 !.probes = IF failure.failed THEN @ + 1 ELSE @,
                                 !.sent = IF isHead THEN headReq.method
                                          ELSE getReq.head.method,
                                 !.attribution = failure]
        redirectUrl == ResolveUrl(getLocationFromRedirect(code), call.url)
        options == RedirectOptions(code, call.method, call.body)
    IN  IF shouldRedirect(code, call.args.redirect)
        THEN IF redirectCount + 1 > MAX_REDIRECTS
             THEN /\ redirectCount' = NextRedirectCount(redirectCount)
                  /\ calls' = [calls EXCEPT ![c] =
                        [seenCall EXCEPT !.pc = "done",
                                         !.result = Resolved(508, ErrorBody, NoLocation)]]
             ELSE /\ call.hops < MaxHops
                  /\ redirectCount' = NextRedirectCount(redirectCount)
                  /\ calls' = [calls EXCEPT ![c] =
                        [seenCall EXCEPT !.pc = "validate",
                                         !.url = redirectUrl,
                                         !.method = options.method,
                                         !.body = options.body,
                                         !.hops = @ + 1,
                                         !.revisit = @ \/ redirectUrl \in call.visited,
                                         !.visited = @ \cup {redirectUrl}]]
        ELSE /\ UNCHANGED redirectCount
             /\ calls' = [calls EXCEPT ![c] =
                   [seenCall EXCEPT !.pc = "done",
                                    !.result = createResponse(
                                        IF isHead THEN NoBody ELSE data, code)]]

\* !checkWttpGateway(...) and !checkWttpHost(...): the checks are async
\* functions, so what is negated is the promise they return, whatever the
\* probe will answer
NotChecked(passes) == FALSE

\* the status wttpGet / wttpHead give wttpErrorResponse after a failed call
FailureStatus(gatewayPasses, hostPasses) ==
    IF NotChecked(gatewayPasses)
    THEN IF NotChecked(hostPasses) THEN 501 ELSE 502
    ELSE 500

\* wttpHead / wttpGet: the resource request through the gateway.  A failed
\* call is caught: checkWttpGateway is called (one more probe, not awaited)
\* and the error response of wttpErrorResponse is returned.
CounterRequest(c) ==
    /\ calls[c].pc = "request"
    /\ \/ \E code \in site.codes, data \in Payloads(calls[c].url) :
             CounterHandle(c, code, data, NoFailure)
       \/ \E gatewayPasses \in BOOLEAN, hostPasses \in BOOLEAN :
             CounterHandle(c, FailureStatus(gatewayPasses, hostPasses),
                           [kind |-> "empty", src |-> <<>>],
                           Failure(gatewayPasses, hostPasses))
    /\ UNCHANGED site

\* the caller takes the settled promise
Return(c) ==
    /\ calls[c].pc = "done"
    /\ calls' = [calls EXCEPT ![c] = IdleCall(calls[c].args)]
    /\ UNCHANGED <<redirectCount, site>>

NextCounter ==
    \/ \E c \in Callers : CounterFetch(c)
    \/ \E c \in Callers : CounterValidateWttpUrl(c)
    \/ \E c \in Callers : CounterLoadWttpHost(c)
    \/ \E c \in Callers : CounterLoadWttpGateway(c)
    \/ \E c \in Callers : CounterRequest(c)
    \/ \E c \in Callers : Return(c)

\* one caller, any request, resources answering with any status
InitOneCaller ==
    /\ \E args \in Requests : calls = [c \in {1} |-> IdleCall(args)]
    /\ redirectCount = 0
    /\ site = [codes |-> Codes, locations |-> Locations, probeCodes |-> ProbeCodes,
               networks |-> IndexedNetworks]

SpecCounter == InitOneCaller /\ [][NextCounter]_vars

\* several callers of the same handler, each following redirects with GET
InitConcurrent ==
    /\ calls = [c \in 1..MaxCalls |->
                  IdleCall([url |-> [host |-> Host, port |-> NoPort,
                                     path |-> <<"page.html">>],
                            method |-> "GET", body |-> "undefined",
                            redirect |-> "follow"])]
    /\ redirectCount = 0
    /\ site = [codes |-> {200, 302}, locations |-> Locations, probeCodes |-> {404},
               networks |-> ShippedNetworks]

SpecConcurrent == InitConcurrent /\ [][NextCounter]_vars

(***************************************************************************)
(* The handler of src/src/index.ts.                                        *)
(***************************************************************************)
\* parseWttpResponse(response): "TODO: implement", returns new Response()
parseWttpResponse(response) == Resolved(200, NoBody, NoLocation)

\* statusCode === 0 ? 500 : statusCode
NormalizeStatus(code) == IF code = 0 THEN 500 ELSE code

\* redirectUrl.startsWith(".")
StartsWithDot(loc) ==
    /\ loc.abs = ""
    /\ ~loc.rooted
    /\ loc.segs # <<>>
    /\ Head(loc.segs) \in {".", ".."}

\* the redirect location as handleWttpRequest reads it: status 300 falls back
\* to './index.html' when the response declares none
IndexRedirectLocation(statusCode, location) ==
    IF statusCode = 300 /\ location = NoLocation
    THEN [abs |-> "", rooted |-> FALSE, segs |-> <<".", "index.html">>]
    ELSE location

\* new URL(redirectUrl, wttpUrl.url.origin) throws: the origin of a wttp: URL
\* is the string "null", which is not a base URL
IndexRedirectThrows(loc) == StartsWithDot(loc)

\* fetch(url, options): new URL(urlString) throws on a string that is not a
\* URL; a wttp: URL goes to handleWttpRequest, which awaits validateWttpUrl
IndexFetch(c) ==
    LET url == calls[c].args.url
        branch == IndexBranch(Scheme(url))
    IN  /\ calls[c].pc = "idle"
        /\ \E outcome \in Dispatched(branch, Scheme(url)) :
              calls' = [calls EXCEPT ![c] =
                 IF ~UrlParses(url)
                 THEN [IdleCall(calls[c].args) EXCEPT !.pc = "done",
                                                      !.result = Rejected("Invalid URL")]
                 ELSE IF branch = "wttp"
                 THEN [IdleCall(calls[c].args) EXCEPT !.pc = "validate",
                                                      !.visited = {url}]
                 ELSE [IdleCall(calls[c].args) EXCEPT !.pc = "done",
                                                      !.result = outcome]]
    /\ UNCHANGED <<redirectCount, site>>

\* validateWttpUrl: a host that is not an address rejects with "URL Error";
\* otherwise the descriptor carries whatever the networks table gave
IndexValidateWttpUrl(c) ==
    LET call == calls[c]
        network == IndexNetwork(call.url, site.networks)
    IN  /\ call.pc = "validate"
        /\ \E resolution \in Resolutions :
              LET host == IndexHost(call.url.host, network, resolution)
              IN  calls' = [calls EXCEPT ![c] =
                    IF host # NoHost
                    THEN [call EXCEPT !.pc = "probeSite", !.network = network,
                                      !.host = host, !.url.host = host]
                    ELSE [call EXCEPT !.pc = "done", !.result = Rejected("URL Error")]]
        /\ UNCHANGED <<redirectCount, site>>

\* a host probe that is taken to pass whatever it gives
SiteProbePassesAlways(throws, code) == TRUE

\* the host probe of getWttpProvider passes when the call returns and the
\* status is 404
SiteProbePasses(throws, code) == ~throws /\ code = 404

\* getWttpProvider, first half: reading network.rpcList of an undefined network
\* throws before any call; site.HEAD(failHeadRequest) must answer 404
IndexProbeSite(c) ==
    LET call == calls[c]
    IN  /\ call.pc = "probeSite"
        /\ \/ /\ call.network = Undefined
              /\ calls' = [calls EXCEPT ![c] =
                    [call EXCEPT !.pc = "done", !.result = Rejected("Provider Error")]]
           \/ /\ call.network # Undefined
              /\ \E throws \in BOOLEAN, code \in site.probeCodes :
                    calls' = [calls EXCEPT ![c] =
                       IF SiteProbePasses(throws, code)
                       THEN [call EXCEPT !.pc = "probeGateway", !.probes = @ + 1,
                                         !.probed = code]
                       ELSE [call EXCEPT !.pc = "done", !.probes = @ + 1,
                                         !.probed = IF throws THEN CallFailed ELSE code,
                                         !.result = Rejected("Provider Error")]]
        /\ UNCHANGED <<redirectCount, site>>

\* getWttpProvider, second half: gateway.HEAD(host, failHeadRequest) must
\* answer 404
IndexProbeGateway(c) ==
    LET call == calls[c]
    IN  /\ call.pc = "probeGateway"
        /\ \E throws \in BOOLEAN, code \in site.probeCodes :
              calls' = [calls EXCEPT ![c] =
                 IF ~throws /\ code = 404
                 THEN [call EXCEPT !.pc = "head", !.probes = @ + 1, !.probed = code]
                 ELSE [call EXCEPT !.pc = "done", !.probes = @ + 1,
                                   !.probed = IF throws THEN CallFailed ELSE code,
                                   !.result = Rejected("Provider Error")]]
        /\ UNCHANGED <<redirectCount, site>>

\* handleWttpRequest from the HEAD response to the return or to the GET call
IndexHandleHead(c, code, location) ==
    LET call == calls[c]
        statusCode == NormalizeStatus(code)
        redirectType == EffectivePolicy(call.args.redirect)
        redirectUrl == IndexRedirectLocation(statusCode, location)
        seenCall == [call EXCEPT !.raw = code, !.seen = statusCode,
                                 !.declared = location, !.heads = @ + 1,
                                 !.sent = headRequest.method,
                                 !.expected =
                                    IF /\ redirectType = "follow"
                                       /\ statusCode >= 300 /\ statusCode < 400
                                    THEN ResolveUrl(redirectUrl, call.url)
                                    ELSE call.url]
    IN  calls' = [calls EXCEPT ![c] =
          IF redirectType = "error" /\ statusCode >= 300 /\ statusCode < 400
          THEN [seenCall EXCEPT !.pc = "done", !.result = Rejected("Redirect Error")]
          ELSE IF \/ call.method = "HEAD"
                  \/ statusCode = 304
                  \/ (statusCode >= 300 /\ redirectType # "follow")
                  \/ statusCode >= 400
          THEN [seenCall EXCEPT !.pc = "done",
                                !.result = parseWttpResponse(code)]
          ELSE IF statusCode >= 300 /\ IndexRedirectThrows(redirectUrl)
          THEN [seenCall EXCEPT !.pc = "done", !.result = Rejected("TypeError")]
          ELSE IF call.method \in {"", "GET"}
          THEN [seenCall EXCEPT !.pc = "get"]
          ELSE [seenCall EXCEPT !.pc = "done", !.result = Rejected("Not Implemented")]]

\* the resource HEAD call through the gateway; a failed call is not caught
IndexHead(c) ==
    /\ calls[c].pc = "head"
    /\ \/ \E code \in site.codes, location \in site.locations :
             IndexHandleHead(c, code, location)
       \/ calls' = [calls EXCEPT ![c].pc = "done", ![c].heads = @ + 1,
                                 ![c].sent = headRequest.method,
                                 ![c].result = Rejected("call failed")]
    /\ UNCHANGED <<redirectCount, site>>

\* the resource GET call through the gateway and the conversion of its result
IndexGet(c) ==
    /\ calls[c].pc = "get"
    /\ \/ \E code \in site.codes, data \in Payloads(calls[c].url) :
             calls' = [calls EXCEPT ![c].pc = "done", ![c].gets = @ + 1,
                                    ![c].sent = getRequest.head.method,
                                    ![c].result = parseWttpResponse(code)]
       \/ calls' = [calls EXCEPT ![c].pc = "done", ![c].gets = @ + 1,
                                 ![c].sent = getRequest.head.method,
                                 ![c].result = Rejected("call failed")]
    /\ UNCHANGED <<redirectCount, site>>

\* the caller's AbortSignal fires (options.signal, an AbortSignal.timeout for
\* instance) while the fetch is between two awaits; no handler code reads it
Abort(c) ==
    /\ calls[c].pc \notin {"idle", "done"}
    /\ ~calls[c].aborted
    /\ calls' = [calls EXCEPT ![c].aborted = TRUE]
    /\ UNCHANGED <<redirectCount, site>>

NextIndex ==
    \/ \E c \in Callers : IndexFetch(c)
    \/ \E c \in Callers : IndexValidateWttpUrl(c)
    \/ \E c \in Callers : IndexProbeSite(c)
    \/ \E c \in Callers : IndexProbeGateway(c)
    \/ \E c \in Callers : IndexHead(c)
    \/ \E c \in Callers : IndexGet(c)
    \/ \E c \in Callers : Abort(c)
    \/ \E c \in Callers : Return(c)

SpecIndex == InitOneCaller /\ [][NextIndex]_vars

\* one caller fetching a URL with any network selector, from a handler
\* constructed with either networks table
InitNetworks ==
    /\ \E args \in [url : NetworkUrls, method : {"", "GET", "HEAD"},
                     body : {"undefined"}, redirect : {""}] :
          calls = [c \in {1} |-> IdleCall(args)]
    /\ redirectCount = 0
    /\ \E networks \in Configs :
          site = [codes |-> {200, 304, 404}, locations |-> {NoLocation},
                  probeCodes |-> ProbeCodes, networks |-> networks]

\* one caller fetching a URL of any scheme
InitSchemes ==
    /\ \E args \in [url : SchemeUrls, method : {"", "HEAD"},
                     body : {"undefined"}, redirect : {""}] :
          calls = [c \in {1} |-> IdleCall(args)]
    /\ redirectCount = 0
    /\ site = [codes |-> {200, 304, 404}, locations |-> {NoLocation},
               probeCodes |-> ProbeCodes, networks |-> IndexedNetworks]

SpecIndexSchemes == InitSchemes /\ [][NextIndex]_vars

\* the same callers on the handler with the redirect counter
SpecCounterSchemes == InitSchemes /\ [][NextCounter]_vars

SpecIndexNetworks == InitNetworks /\ [][NextIndex]_vars

\* the same callers on the handler built on utils/wttpMethods.ts
SpecCounterNetworks == InitNetworks /\ [][NextCounter]_vars

(***************************************************************************)
(* The handler of src/unnamed/part_012: probes, HEAD, redirect handling    *)
(* and GET inside one handleWttpRequest; a followed redirect re-enters     *)
(* fetch.                                                                  *)
(***************************************************************************)
\* new Response(body, {status, headers}) outside any try block: a throwing
\* constructor rejects the fetch
LegacyResponse(body, statusCode, location) ==
    IF ResponseThrows(body, statusCode)
    THEN Rejected("TypeError")
    ELSE Resolved(statusCode, body, location)

\* fetch(url, options): a wttp:// URL goes to handleWttpRequest, which awaits
\* parseWttpUrl
LegacyFetch(c) ==
    LET url == calls[c].args.url
        branch == LegacyBranch(Scheme(url))
    IN  /\ calls[c].pc = "idle"
        /\ \E outcome \in Dispatched(branch, Scheme(url)) :
              calls' = [calls EXCEPT ![c] =
                 IF branch = "wttp"
                 THEN [IdleCall(calls[c].args) EXCEPT !.pc = "validate",
                                                      !.visited = {url}]
                 ELSE [IdleCall(calls[c].args) EXCEPT !.pc = "done",
                                                      !.result = outcome]]
    /\ UNCHANGED <<redirectCount, site>>

\* parseWttpUrl: a string that is not a URL or a host it cannot take rejects
\* with "Parse Error"; back in handleWttpRequest, reading network.rpcList of
\* an undefined network throws a TypeError
LegacyParseWttpUrl(c) ==
    LET call == calls[c]
        network == LegacyNetwork(call.url, site.networks)
    IN  /\ call.pc = "validate"
        /\ \E resolution \in Resolutions :
              LET host == LegacyHost(call.url.host, network, resolution)
              IN  calls' = [calls EXCEPT ![c] =
                    IF ~UrlParses(call.url) \/ host = NoHost
                    THEN [call EXCEPT !.pc = "done", !.result = Rejected("Parse Error")]
                    ELSE IF network = Undefined
                    THEN [call EXCEPT !.pc = "done", !.network = network,
                                      !.host = host, !.result = Rejected("TypeError")]
                    ELSE [call EXCEPT !.pc = "probeSite", !.network = network,
                                      !.host = host]]
        /\ UNCHANGED <<redirectCount, site>>

\* web3Site.HEAD(failHeadRequest) must answer 404; a contract whose target is
\* not a hex string has no address to call
LegacyProbeSite(c) ==
    LET call == calls[c]
    IN  /\ call.pc = "probeSite"
        /\ \E throws \in (IF IsHexString(call.host) THEN BOOLEAN ELSE {TRUE}),
              code \in site.probeCodes :
              calls' = [calls EXCEPT ![c] =
                 IF ~throws /\ code = 404
                 THEN [call EXCEPT !.pc = "probeGateway", !.probes = @ + 1,
                                   !.probed = code]
                 ELSE [call EXCEPT !.pc = "done", !.probes = @ + 1,
                                   !.probed = IF throws THEN CallFailed ELSE code,
                                   !.result = Rejected("Invalid WTTP Host")]]
        /\ UNCHANGED <<redirectCount, site>>

\* wttpGateway.HEAD(host, failHeadRequest) must answer 404
LegacyProbeGateway(c) ==
    LET call == calls[c]
    IN  /\ call.pc = "probeGateway"
        /\ \E throws \in BOOLEAN, code \in site.probeCodes :
              calls' = [calls EXCEPT ![c] =
                 IF ~throws /\ code = 404
                 THEN [call EXCEPT !.pc = "head", !.probes = @ + 1, !.probed = code]
                 ELSE [call EXCEPT !.pc = "done", !.probes = @ + 1,
                                   !.probed = IF throws THEN CallFailed ELSE code,
                                   !.result = Rejected("Invalid WTTP Gateway")]]
        /\ UNCHANGED <<redirectCount, site>>

\* handleWttpRequest from the HEAD response to the return, to the next fetch
\* or to the second protocol call
LegacyHandleHead(c, code, location) ==
    LET call == calls[c]
        normalized == NormalizeStatus(code)
        redirectType == EffectivePolicy(call.args.redirect)
        statusCode == IF normalized = 300 /\ redirectType = "follow"
                      THEN 302 ELSE normalized
        seenCall == [call EXCEPT !.raw = code, !.seen = statusCode,
                                 !.declared = location, !.heads = @ + 1,
                                 !.sent = headRequest.method]
        redirectUrl == ResolveUrl(location, call.url)
        isRedirect == statusCode >= 300 /\ statusCode < 400
        proceed == IF call.method \in {"", "GET"}
                   THEN [seenCall EXCEPT !.pc = "get"]
                   ELSE IF call.method = "HEAD"
                   THEN [seenCall EXCEPT !.pc = "head2"]
                   ELSE [seenCall EXCEPT !.pc = "done",
                                         !.result = Rejected("Not implemented")]
    IN  /\ isRedirect /\ location # NoLocation /\ call.args.redirect = "follow"
            => call.hops < MaxChain
        /\ calls' = [calls EXCEPT ![c] =
              IF isRedirect /\ location = NoLocation
              THEN [seenCall EXCEPT !.pc = "done",
                                    !.result = Rejected("Redirect without Location")]
              ELSE IF isRedirect /\ call.args.redirect = "error"
              THEN [seenCall EXCEPT !.pc = "done", !.result = Rejected("TypeError")]
              ELSE IF isRedirect /\ call.args.redirect = "manual"
              THEN [seenCall EXCEPT !.pc = "done",
                                    !.result = LegacyResponse(NoBody, statusCode, location)]
              ELSE IF isRedirect /\ call.args.redirect = "follow"
              THEN [seenCall EXCEPT !.pc = "validate",
                                    !.url = redirectUrl,
                                    !.expected = redirectUrl,
                                    !.hops = @ + 1,
                                    !.revisit = @ \/ redirectUrl \in call.visited,
                                    !.visited = @ \cup {redirectUrl}]
              ELSE proceed]

\* the resource HEAD call through the gateway; a failed call is not caught
LegacyHead(c) ==
    /\ calls[c].pc = "head"
    /\ \/ \E code \in site.codes, location \in site.locations :
             LegacyHandleHead(c, code, location)
       \/ calls' = [calls EXCEPT ![c].pc = "done", ![c].heads = @ + 1,
                                 ![c].sent = headRequest.method,
                                 ![c].result = Rejected("call failed")]
    /\ UNCHANGED <<redirectCount, site>>

\* the resource GET call and the Response built from its result
LegacyGet(c) ==
    /\ calls[c].pc = "get"
    /\ \/ \E code \in site.codes, location \in site.locations,
              data \in Payloads(calls[c].url) :
             calls' = [calls EXCEPT ![c].pc = "done", ![c].gets = @ + 1,
                                    ![c].sent = getRequest.head.method,
                                    ![c].result = LegacyResponse(data, code, location)]
       \/ calls' = [calls EXCEPT ![c].pc = "done", ![c].gets = @ + 1,
                                 ![c].sent = getRequest.head.method,
                                 ![c].result = Rejected("call failed")]
    /\ UNCHANGED <<redirectCount, site>>

\* method HEAD: a second HEAD call and the body-less Response built from it
LegacyHeadAgain(c) ==
    /\ calls[c].pc = "head2"
    /\ \/ \E code \in site.codes, location \in site.locations :
             calls' = [calls EXCEPT ![c].pc = "done", ![c].heads = @ + 1,
                                    ![c].sent = headRequest.method,
                                    ![c].result = LegacyResponse(NoBody, code, location)]
       \/ calls' = [calls EXCEPT ![c].pc = "done", ![c].heads = @ + 1,
                                 ![c].sent = headRequest.method,
                                 ![c].result = Rejected("call failed")]
    /\ UNCHANGED <<redirectCount, site>>

NextLegacy ==
    \/ \E c \in Callers : LegacyFetch(c)
    \/ \E c \in Callers : LegacyParseWttpUrl(c)
    \/ \E c \in Callers : LegacyProbeSite(c)
    \/ \E c \in Callers : LegacyProbeGateway(c)
    \/ \E c \in Callers : LegacyHead(c)
    \/ \E c \in Callers : LegacyGet(c)
    \/ \E c \in Callers : LegacyHeadAgain(c)
    \/ \E c \in Callers : Return(c)

\* one caller, any request, for resources under an address or under a name
InitLegacy ==
    /\ \E args \in [url : StartUrls \cup NamedUrls \cup SpelledUrls, method : Methods,
                     body : RequestBodies, redirect : RedirectPolicies] :
          calls = [c \in {1} |-> IdleCall(args)]
    /\ redirectCount = 0
    /\ site = [codes |-> Codes, locations |-> Locations, probeCodes |-> ProbeCodes,
               networks |-> IndexedNetworks]

SpecLegacy == InitLegacy /\ [][NextLegacy]_vars

(***************************************************************************)
(* Header synthesis: createHeadersFromHeadResponse of src/src/index.ts and *)
(* convertWttpResponseToFetchResponse of src/unnamed/part_004.             *)
(*                                                                         *)
(* A header value is the sequence of the items the code joins, in order;   *)
(* the empty sequence stands for a header that is not set.                 *)
(***************************************************************************)
\* ethers.ZeroHash, the all-zero content tag (a hex string)
ZeroHash == "0x0000"

\* the tag of some content
ContentTag == "0xa1b2"

\* the head of the response mockWttpGet answers with
MockHead ==
    [mimeType |-> "text/html", charset |-> "utf-8", etag |-> ContentTag,
     maxAge |-> 3600, noStore |-> FALSE, noCache |-> FALSE,
     immutableFlag |-> FALSE, publicFlag |-> TRUE, methods |-> 1]

\* the head of wttpErrorResponse(statusCode)
ErrorHead ==
    [mimeType |-> "", charset |-> "", etag |-> ZeroHash,
     maxAge |-> 0, noStore |-> FALSE, noCache |-> FALSE,
     immutableFlag |-> FALSE, publicFlag |-> FALSE, methods |-> 0]

\* the values of the methods field that the Allow table reads
MethodMasks == 0..255

\* the heads a resource may answer with: every method bitmask, and every
\* combination of the metadata, tag and cache fields
HeadResponses ==
    { [MockHead EXCEPT !.methods = m] : m \in MethodMasks }
    \cup
    [mimeType : {"", "text/html"}, charset : {"", "utf-8"},
     etag : {ZeroHash, ContentTag}, maxAge : {0, 3600},
     noStore : BOOLEAN, noCache : BOOLEAN,
     immutableFlag : BOOLEAN, publicFlag : BOOLEAN, methods : {0, 7}]

\* a directive with a number, and a directive that is a bare word
Directive(name, value) == [name |-> name, value |-> value]

Flag(name) == [name |-> name, value |-> 0]

\* one item when the condition holds, none otherwise
Push(condition, item) == IF condition THEN <<item>> ELSE <<>>

\* methodsValue & bit
BitAnd(methodsValue, bit) == IF (methodsValue \div bit) % 2 = 1 THEN bit ELSE 0

\* the Allow header with PUT tested before GET
IndexAllowPutFirst(head) ==
    IF head.methods # 0
    THEN Push(BitAnd(head.methods, 1) # 0, "HEAD")
         \o Push(BitAnd(head.methods, 4) # 0, "PUT")
         \o Push(BitAnd(head.methods, 2) # 0, "GET")
         \o Push(BitAnd(head.methods, 8) # 0, "DELETE")
         \o Push(BitAnd(head.methods, 16) # 0, "PATCH")
         \o Push(BitAnd(head.methods, 32) # 0, "OPTIONS")
         \o Push(BitAnd(head.methods, 64) # 0, "DEFINE")
         \o Push(BitAnd(head.methods, 128) # 0, "LOCATE")
    ELSE <<>>

\* the Allow header of createHeadersFromHeadResponse
IndexAllow(head) ==
    IF head.methods # 0
    THEN Push(BitAnd(head.methods, 1) # 0, "HEAD")
         \o Push(BitAnd(head.methods, 2) # 0, "GET")
         \o Push(BitAnd(head.methods, 4) # 0, "PUT")
         \o Push(BitAnd(head.methods, 8) # 0, "DELETE")
         \o Push(BitAnd(head.methods, 16) # 0, "PATCH")
         \o Push(BitAnd(head.methods, 32) # 0, "OPTIONS")
         \o Push(BitAnd(head.methods, 64) # 0, "DEFINE")
         \o Push(BitAnd(head.methods, 128) # 0, "LOCATE")
    ELSE <<>>

\* Content-Type: the MIME type, and the charset parameter when there is one
ContentType(head) ==
    IF head.mimeType # ""
    THEN <<head.mimeType>> \o Push(head.charset # "", Directive("charset", head.charset))
    ELSE <<>>

\* the Cache-Control header without the public directive
IndexCacheControlPrivate(head) ==
    Push(head.maxAge # 0, Directive("max-age", head.maxAge))
    \o Push(head.noStore, Flag("no-store"))
    \o Push(head.noCache, Flag("no-cache"))
    \o Push(head.immutableFlag, Flag("immutable"))

\* the Cache-Control header of createHeadersFromHeadResponse; the fields it
\* reads through `cache as any` are not part of the cache structure
IndexCacheControl(head) ==
    Push(head.maxAge # 0, Directive("max-age", head.maxAge))
    \o Push(head.noStore, Flag("no-store"))
    \o Push(head.noCache, Flag("no-cache"))
    \o Push(head.immutableFlag, Flag("immutable"))
    \o Push(head.publicFlag, Flag("public"))

\* the Cache-Control header of convertWttpResponseToFetchResponse
ModuleCacheControl(head) ==
    Push(head.maxAge > 0, Directive("max-age", head.maxAge))
    \o Push(head.noStore, Flag("no-store"))
    \o Push(head.noCache, Flag("no-cache"))
    \o Push(head.immutableFlag, Flag("immutable"))
    \o Push(head.publicFlag, Flag("public"))

\* createHeadersFromHeadResponse: the ETag is set when headResponse.etag is
\* truthy, which every hex string is
IndexHeaders(head) ==
    [contentType |-> ContentType(head),
     etag |-> Push(head.etag # "", head.etag),
     cacheControl |-> IndexCacheControl(head),
     allow |-> IndexAllow(head),
     wttpError |-> <<>>]

\* the headers of convertWttpResponseToFetchResponse: no Allow header
ModuleHeaders(head) ==
    [contentType |-> ContentType(head),
     etag |-> Push(head.etag # "" /\ head.etag # ZeroHash, head.etag),
     cacheControl |-> ModuleCacheControl(head),
     allow |-> <<>>,
     wttpError |-> <<>>]

\* a protocol response head waiting to be converted
HeaderCall(head) == [pc |-> "idle", head |-> head, by |-> "", headers |-> NoHeaders]

\* createHeadersFromHeadResponse(headResponse)
IndexCreateHeaders(c) ==
    /\ calls[c].pc = "idle"
    /\ calls' = [calls EXCEPT ![c].pc = "done",
                              ![c].by = "createHeadersFromHeadResponse",
                              ![c].headers = IndexHeaders(calls[c].head)]
    /\ UNCHANGED <<redirectCount, site>>

\* the header part of convertWttpResponseToFetchResponse(wttpResponse, url)
ModuleCreateHeaders(c) ==
    /\ calls[c].pc = "idle"
    /\ calls' = [calls EXCEPT ![c].pc = "done",
                              ![c].by = "convertWttpResponseToFetchResponse",
                              ![c].headers = ModuleHeaders(calls[c].head)]
    /\ UNCHANGED <<redirectCount, site>>

\* the headers are taken; the same head may be converted again
HeadersTaken(c) ==
    /\ calls[c].pc = "done"
    /\ calls' = [calls EXCEPT ![c] = HeaderCall(calls[c].head)]
    /\ UNCHANGED <<redirectCount, site>>

NextHeaders ==
    \/ \E c \in Callers : IndexCreateHeaders(c)
    \/ \E c \in Callers : ModuleCreateHeaders(c)
    \/ \E c \in Callers : HeadersTaken(c)

InitHeaders ==
    /\ \E head \in HeadResponses : calls = [c \in {1} |-> HeaderCall(head)]
    /\ redirectCount = 0
    /\ site = [codes |-> {200}, locations |-> {NoLocation}, probeCodes |-> {404},
               networks |-> ShippedNetworks]

SpecHeaders == InitHeaders /\ [][NextHeaders]_vars

(***************************************************************************)
(* The module-level fetch of src/unnamed/part_004, built on wttpGet of     *)
(* utils/wttpMethods.ts.                                                   *)
(***************************************************************************)
\* the errors whose text has line breaks inside: the template string that
\* getWttpProvider throws when a contract could not be loaded
HasLineBreak(error) == error = "Invalid WTTP contracts"

\* the catch block of fetch: new Response(text, { status: 500, headers:
\* { 'WTTP-Error': String(error) } }); a header value with a line break
\* inside makes the constructor throw
ModuleErrorResponse(call, error) ==
    IF HasLineBreak(error)
    THEN [call EXCEPT !.pc = "done", !.result = Rejected("TypeError")]
    ELSE [call EXCEPT !.pc = "done",
                      !.result = Resolved(500, ErrorBody, NoLocation),
                      !.headers = [NoHeaders EXCEPT !.wttpError = <<error>>]]

\* convertWttpResponseToFetchResponse inside the try block: the headers of
\* the head and a body for any data that is not the empty string
ModuleConvert(call, code, data, head) ==
    LET body == IF data.kind = "none" THEN NoBody ELSE data
    IN  IF ResponseThrows(body, code)
        THEN ModuleErrorResponse(call, IF code < 200 \/ code > 599
                                       THEN "RangeError" ELSE "TypeError")
        ELSE [call EXCEPT !.pc = "done",
                          !.result = Resolved(code, body, NoLocation),
                          !.headers = ModuleHeaders(head)]

\* fetch(url, options): new URL(url) outside the try block; a wttp: URL goes
\* to wttpGet, any other to globalThis.fetch
ModuleFetch(c) ==
    LET url == calls[c].args.url
    IN  /\ calls[c].pc = "idle"
        /\ \E outcome \in PlatformOutcomes(Scheme(url)) :
              calls' = [calls EXCEPT ![c] =
                 IF ~UrlParses(url)
                 THEN [IdleCall(calls[c].args) EXCEPT !.pc = "done",
                                                      !.result = Rejected("Invalid URL")]
                 ELSE IF Scheme(url) = "wttp"
                 THEN [IdleCall(calls[c].args) EXCEPT !.pc = "validate",
                                                      !.visited = {url}]
                 ELSE [IdleCall(calls[c].args) EXCEPT !.pc = "done",
                                                      !.result = outcome]]
        /\ UNCHANGED <<redirectCount, site>>

\* wttpGet, getWttpUrl: a host or a network it cannot resolve throws
\* "Bad Host or Gateway"
ModuleGetWttpUrl(c) ==
    LET call == calls[c]
        network == GatewayNetwork(call.url)
    IN  /\ call.pc = "validate"
        /\ \E resolution \in Resolutions :
              LET host == GatewayHost(call.url.host, resolution)
              IN  calls' = [calls EXCEPT ![c] =
                    IF host = NoHost \/ network = Undefined
                    THEN ModuleErrorResponse(call, "Bad Host or Gateway")
                    ELSE [call EXCEPT !.pc = "loadHost", !.network = network,
                                      !.host = host, !.url.host = host]]
        /\ UNCHANGED <<redirectCount, site>>

\* wttpGet, getWttpProvider: loadWttpHost
ModuleLoadWttpHost(c) ==
    LET call == calls[c]
    IN  /\ call.pc = "loadHost"
        /\ \E throws \in BOOLEAN, code \in site.probeCodes :
              calls' = [calls EXCEPT ![c] =
                 IF ~throws
                 THEN [call EXCEPT !.pc = "loadGateway", !.probes = @ + 1,
                                   !.probed = code]
                 ELSE ModuleErrorResponse(
                         [call EXCEPT !.probes = @ + 1, !.probed = CallFailed],
                         "Invalid WTTP contracts")]
        /\ UNCHANGED <<redirectCount, site>>

\* wttpGet, getWttpProvider: loadWttpGateway
ModuleLoadWttpGateway(c) ==
    LET call == calls[c]
    IN  /\ call.pc = "loadGateway"
        /\ \E throws \in BOOLEAN, code \in site.probeCodes :
              calls' = [calls EXCEPT ![c] =
                 IF ~throws
                 THEN [call EXCEPT !.pc = "request", !.probes = @ + 1,
                                   !.probed = code]
                 ELSE ModuleErrorResponse(
                         [call EXCEPT !.probes = @ + 1, !.probed = CallFailed],
                         "Invalid WTTP contracts")]
        /\ UNCHANGED <<redirectCount, site>>

\* wttpGet: gateway.GET; a failed call is caught inside wttpGet, which makes
\* one more probe and returns wttpErrorResponse, with '' for data; what
\* wttpGet returned is converted
ModuleGet(c) ==
    LET call == calls[c]
        sentCall == [call EXCEPT !.gets = @ + 1, !.sent = getReq.head.method]
    IN  /\ call.pc = "request"
        /\ \/ \E code \in site.codes, data \in Payloads(call.url),
                 head \in {MockHead, ErrorHead} :
                 calls' = [calls EXCEPT ![c] =
                    ModuleConvert([sentCall EXCEPT !.raw = code, !.seen = code],
                                  code, data, head)]
           \/ \E gatewayPasses \in BOOLEAN, hostPasses \in BOOLEAN :
                 LET code == FailureStatus(gatewayPasses, hostPasses)
                 IN  calls' = [calls EXCEPT ![c] =
                        ModuleConvert(
                           [sentCall EXCEPT !.raw = code, !.seen = code,
                                            !.probes = @ + 1,
                                            !.attribution =
                                               Failure(gatewayPasses, hostPasses)],
                           code, [kind |-> "none", src |-> <<>>], ErrorHead)]
        /\ UNCHANGED <<redirectCount, site>>

NextModule ==
    \/ \E c \in Callers : ModuleFetch(c)
    \/ \E c \in Callers : ModuleGetWttpUrl(c)
    \/ \E c \in Callers : ModuleLoadWttpHost(c)
    \/ \E c \in Callers : ModuleLoadWttpGateway(c)
    \/ \E c \in Callers : ModuleGet(c)
    \/ \E c \in Callers : Return(c)

\* one caller of the module-level fetch, for a URL of any scheme, host or
\* network selector
InitModule ==
    /\ \E args \in [url : StartUrls \cup NamedUrls \cup SchemeUrls \cup NetworkUrls,
                     method : {""}, body : {"undefined"}, redirect : {""}] :
          calls = [c \in {1} |-> IdleCall(args)]
    /\ redirectCount = 0
    /\ site = [codes |-> Codes, locations |-> {NoLocation},
               probeCodes |-> ProbeCodes, networks |-> ShippedNetworks]

SpecModule == InitModule /\ [][NextModule]_vars

(***************************************************************************)
(* Properties.                                                             *)
(*                                                                         *)
(* Fields of a call that only the properties read: hops (redirects this    *)
(* fetch has followed), visited (URLs it has requested), revisit (it has   *)
(* followed a redirect to a URL already visited), raw (status code of the  *)
(* last protocol response), seen (the status its branches used), declared  *)
(* (the location that response declared), expected (the resolved target of *)
(* the redirect it decided to follow), probes / heads / gets (calls made),  *)
(* probed (answer of the last probe), attribution (a failed resource call), *)
(* host and network (the descriptor), aborted (the caller's signal fired), *)
(* sent (method code of the last protocol request).                        *)
(***************************************************************************)
TypeOK ==
    /\ redirectCount \in 0..MAX_REDIRECTS
    /\ \A c \in Callers : calls[c].hops \in 0..MaxHops

\* the step follows a redirect for caller c
Hop(c) == calls'[c].hops = calls[c].hops + 1

RedirectStatus == 300..399

\* C1: when the HEAD response carries status 0, every decision uses 500 and
\* the caller gets a Response with status 500
C1_StatusZeroIs500 ==
    \A c \in Callers :
        calls[c].raw = 0 =>
            /\ calls[c].seen = 500
            /\ calls[c].pc = "done" =>
                  /\ calls[c].result.kind = "response"
                  /\ calls[c].result.status = 500

\* C2: a fetch takes at most MAX_REDIRECTS + 1 hops, and once it has taken
\* more than MAX_REDIRECTS it has ended with status 508
C2_HopLimit ==
    \A c \in Callers :
        /\ calls[c].hops <= MAX_REDIRECTS + 1
        /\ calls[c].hops > MAX_REDIRECTS =>
              /\ calls[c].pc = "done"
              /\ calls[c].result.status = 508

\* C3: a fetch that is led from A to B and back to A ends with the
\* too-many-redirects outcome instead of requesting A again
C3_TwoNodeLoopDetected ==
    \A c \in Callers :
        ( /\ calls[c].revisit
          /\ calls[c].hops >= 2
          /\ calls[c].url = calls[c].args.url
          /\ Cardinality(calls[c].visited) = 2 )
        => /\ calls[c].pc = "done"
           /\ calls[c].result.status = 508

\* C4: a fetch ends with 508 only on account of its own hops: it has followed
\* MAX_REDIRECTS redirects itself when it gets the 508 response
C4_OwnHopsOnly ==
    \A c \in Callers :
        ( /\ calls[c].pc = "done"
          /\ calls[c].result.kind = "response"
          /\ calls[c].result.status = 508 )
        => calls[c].hops >= MAX_REDIRECTS

C6_Downgrade301302 ==
    [][\A c \in Callers :
          ( /\ Hop(c)
            /\ calls'[c].seen \in {301, 302}
            /\ calls[c].method \in {"GET", "HEAD", "POST", "PUT", "DELETE", "PATCH"} )
          => IF calls[c].method \in {"GET", "HEAD"}
             THEN calls'[c].method = calls[c].method
             ELSE calls'[c].method = "GET" /\ calls'[c].body = "undefined"]_vars

\* C7: with policy 'error' a status in 300..399 makes the fetch reject with
\* the redirect-policy error, with no GET call and no hop
C7_ErrorPolicyRejects ==
    \A c \in Callers :
        (calls[c].args.redirect = "error" /\ calls[c].raw \in RedirectStatus) =>
            /\ calls[c].gets = 0
            /\ calls[c].hops = 0
            /\ calls[c].pc = "done" =>
                  /\ calls[c].result.kind = "rejected"
                  /\ calls[c].result.error = "Redirect Error"

\* C8: with policy 'manual' a status in 300..399 is returned as a Response
\* with that status and the Location header, with no GET call and no hop
C8_ManualReturnsRedirect ==
    \A c \in Callers :
        (calls[c].args.redirect = "manual" /\ calls[c].raw \in RedirectStatus) =>
            /\ calls[c].gets = 0
            /\ calls[c].hops = 0
            /\ calls[c].pc = "done" =>
                  /\ calls[c].result.kind = "response"
                  /\ calls[c].result.status = calls[c].raw
                  /\ calls[c].declared # NoLocation =>
                        calls[c].result.location # NoLocation

\* C9: a final protocol status of 304 is returned as a Response with status
\* 304 and an empty body, whatever the method
C9_NotModifiedEmpty ==
    \A c \in Callers :
        ( /\ calls[c].pc = "done"
          /\ calls[c].raw = 304
          /\ EffectivePolicy(calls[c].args.redirect) # "error" )
        => /\ calls[c].result.kind = "response"
           /\ calls[c].result.status = 304
           /\ calls[c].result.body.kind \in {"null", "empty"}

\* C10: after a 301, 302, 303, 307 or 308 with a location under policy
\* 'follow', the next protocol request goes to the resolved redirect target
C10_FollowsToTarget ==
    \A c \in Callers :
        ( /\ EffectivePolicy(calls[c].args.redirect) = "follow"
          /\ calls[c].seen \in {301, 302, 303, 307, 308}
          /\ calls[c].declared # NoLocation
          /\ calls[c].pc = "get" )
        => calls[c].url = calls[c].expected

\* a HEAD status that ends the call: not modified, an error, or a redirect
\* that is not to be followed
HeadEnds(status, policy) ==
    \/ status = 304
    \/ status >= 400
    \/ (status \in RedirectStatus /\ policy # "follow")

\* C11: a resource GET call is made only after a resource HEAD call of the
\* same fetch, only for a request whose method is GET or unspecified, and
\* only when the HEAD status did not end the call
C11_HeadBeforeGet ==
    \A c \in Callers :
        (calls[c].gets > 0 \/ calls[c].pc = "get") =>
            /\ calls[c].heads > 0
            /\ calls[c].method \in {"", "GET"}
            /\ ~HeadEnds(calls[c].seen, EffectivePolicy(calls[c].args.redirect))

\* C12: a protocol status outside 300..399 (0 counted as 500) is the status
\* of the Response the caller gets
C12_StatusPassesThrough ==
    \A c \in Callers :
        ( /\ calls[c].pc = "done"
          /\ calls[c].result.kind = "response"
          /\ calls[c].raw >= 0
          /\ NormalizeStatus(calls[c].raw) \notin RedirectStatus )
        => calls[c].result.status = NormalizeStatus(calls[c].raw)

C14_ProbeMustAnswer404 ==
    \A c \in Callers :
        (calls[c].probes > 0 /\ calls[c].probed # 404) =>
            /\ calls[c].pc = "done"
            /\ calls[c].result.kind = "rejected" \/ calls[c].result.status >= 500

\* C15: one fetch makes the host probe and the gateway probe once each,
\* however many redirects it follows
C15_ProbesOncePerFetch ==
    \A c \in Callers : calls[c].probes <= 2

\* C16: the error response for a resource call that failed outright has
\* status 502 when the gateway does not pass its probe, 501 when the host does
\* not, and 500 when both pass
C16_FailureAttribution ==
    \A c \in Callers :
        calls[c].attribution.failed =>
            LET gateway == calls[c].attribution.gateway
                host == calls[c].attribution.host
            IN  /\ (~gateway /\ host) => calls[c].raw = 502
                /\ (gateway /\ ~host) => calls[c].raw = 501
                /\ (~gateway /\ ~host) => calls[c].raw \in {501, 502}
                /\ (gateway /\ host) => calls[c].raw = 500

\* C17: under policy 'follow' a HEAD answer of 300 is taken as a 302 and the
\* fetch goes on to the declared location, or to ./index.html when none is
\* declared, resolved against the requested URL
C17_MultipleChoicesAs302 ==
    [][\A c \in Callers :
          ( /\ calls[c].pc = "head"
            /\ calls'[c].heads = calls[c].heads + 1
            /\ EffectivePolicy(calls[c].args.redirect) = "follow"
            /\ calls'[c].raw = 300 )
          => /\ calls'[c].seen = 302
             /\ Hop(c)
             /\ calls'[c].url =
                   ResolveUrl(IndexRedirectLocation(300, calls'[c].declared),
                              calls[c].url)]_vars

\* C18: under policy 'follow' the location of a 301, 302, 303, 307 or 308 is
\* resolved against the URL of the request that was answered, and the fetch
\* goes on with the resolved URL
C18_RelativeResolution ==
    [][\A c \in Callers :
          ( /\ calls[c].pc = "head"
            /\ calls'[c].heads = calls[c].heads + 1
            /\ EffectivePolicy(calls[c].args.redirect) = "follow"
            /\ calls'[c].seen \in {301, 302, 303, 307, 308}
            /\ calls'[c].declared # NoLocation )
          => /\ calls'[c].result.kind # "rejected"
             /\ calls'[c].url = ResolveUrl(calls'[c].declared, calls[c].url)]_vars

\* the selectors of the supported alias pairs
SupportedAliases == {"leth", "31337", "seth", "11155111", "eth", "1"}

\* the network each of them stands for
CanonicalName(alias) ==
    CASE alias \in {"leth", "31337"} -> "localhost"
      [] alias \in {"seth", "11155111"} -> "sepolia"
      [] alias \in {"eth", "1"} -> "mainnet"

\* the first key of a networks table: integer-like keys come first
FirstNetwork(networks) == IF "0" \in networks THEN "0" ELSE "localhost"

\* C19: a URL with a valid host and any supported selector resolves to the
\* entry configured under the canonical name of that selector, so both
\* spellings of a network give the same entry
C19_AliasesAgree ==
    \A c \in Callers :
        ( /\ calls[c].args.url.port.text \in SupportedAliases
          /\ IsAddress(calls[c].args.url.host)
          /\ calls[c].pc \notin {"idle", "validate"} )
        => calls[c].network = CanonicalName(calls[c].args.url.port.text)

\* C20: a descriptor that URL resolution returns carries an entry of the
\* networks table, the first one when the URL has no selector
C20_NetworkFromTable ==
    \A c \in Callers :
        calls[c].network # "" =>
            /\ calls[c].network \in site.networks
            /\ calls[c].url.port = NoPort =>
                  calls[c].network = FirstNetwork(site.networks)

\* C21: the host of a descriptor that URL resolution returned, which is the
\* host every probe, HEAD and GET call of the fetch is made with, is the
\* checksummed form of an address, whatever the spelling in the URL
C21_CanonicalHost ==
    \A c \in Callers :
        (calls[c].host # NoHost \/ calls[c].probes + calls[c].heads + calls[c].gets > 0)
            => calls[c].host = Host

\* C22: once the caller's signal has fired during a fetch, the fetch makes no
\* further probe, HEAD or GET call, and it ends rejected with the abort error
C22_AbortStopsFetch ==
    [][\A c \in Callers :
          calls[c].aborted =>
             /\ calls'[c].probes = calls[c].probes
             /\ calls'[c].heads = calls[c].heads
             /\ calls'[c].gets = calls[c].gets
             /\ calls'[c].pc = "done" =>
                   /\ calls'[c].result.kind = "rejected"
                   /\ calls'[c].result.error = "AbortError"]_vars

\* C23: a fetch of an http or https URL ends with what the platform fetch
\* gave, a fetch of a URL whose scheme is none of http, https, wttp and ipfs
\* ends with a Response of status 505, and neither makes a protocol call
C23_SchemeDispatch ==
    \A c \in Callers :
        LET scheme == Scheme(calls[c].args.url)
            call == calls[c]
        IN  /\ scheme \notin {"wttp", "ipfs"} =>
                  call.probes + call.heads + call.gets = 0
            /\ call.pc \notin {"idle", "done"} => scheme \in {"wttp", "ipfs"}
            /\ (call.pc = "done" /\ scheme \in {"http", "https"}) =>
                  call.result \in PlatformOutcomes(scheme)
            /\ (call.pc = "done" /\ scheme \notin {"http", "https", "wttp", "ipfs"}) =>
                  call.result = error505Response

\* the verb of each bit of the methods field, in the order of the table
VerbTable == <<"HEAD", "GET", "PUT", "DELETE", "PATCH", "OPTIONS", "DEFINE", "LOCATE">>

\* the verbs of the table whose bit is set in mask, from position i on
RECURSIVE VerbsOf(_, _)
VerbsOf(mask, i) ==
    IF i > Len(VerbTable) THEN <<>>
    ELSE Push((mask \div 2^(i - 1)) % 2 = 1, VerbTable[i]) \o VerbsOf(mask, i + 1)

CacheDirectives(head) ==
    Push(head.maxAge > 0, Directive("max-age", head.maxAge))
    \o Push(head.noStore, Flag("no-store"))
    \o Push(head.noCache, Flag("no-cache"))
    \o Push(head.immutableFlag, Flag("immutable"))
    \o Push(head.publicFlag, Flag("public"))

\* C25: for MIME type text/html, charset utf-8, max-age 3600 and only the
\* public flag, Content-Type is text/html; charset=utf-8 and Cache-Control is
\* max-age=3600, public; for every head Cache-Control has one directive per
\* set flag or positive number and is not set when there is none
C25_ContentTypeAndCacheControl ==
    \A c \in Callers :
        calls[c].pc = "done" =>
            LET head == calls[c].head
                headers == calls[c].headers
            IN  /\ ( /\ head.mimeType = "text/html" /\ head.charset = "utf-8"
                     /\ head.maxAge = 3600 /\ head.publicFlag
                     /\ ~head.noStore /\ ~head.noCache /\ ~head.immutableFlag )
                   => /\ headers.contentType =
                            <<"text/html", Directive("charset", "utf-8")>>
                      /\ headers.cacheControl =
                            <<Directive("max-age", 3600), Flag("public")>>
                /\ headers.cacheControl = CacheDirectives(head)

\* the head of the scenario has been converted by createHeadersFromHeadResponse
C25_Witness ==
    \E c \in Callers :
        /\ calls[c].pc = "done" /\ calls[c].by = "createHeadersFromHeadResponse"
        /\ calls[c].head = [MockHead EXCEPT !.methods = 7]
        /\ calls[c].headers.cacheControl = <<Directive("max-age", 3600), Flag("public")>>

\* C27: the ETag header is set if and only if the content tag of the response
\* is not the all-zero tag
C27_EtagOnlyForContent ==
    \A c \in Callers :
        calls[c].pc = "done" =>
            (calls[c].headers.etag # <<>> <=> calls[c].head.etag # ZeroHash)

\* C26: a step in which a resource HEAD or GET call fails makes no other
\* adapter call, and a fetch whose probe has failed has ended
C26_NoCallAfterFailure ==
    [][\A c \in Callers :
          /\ ( /\ calls'[c].attribution.failed
               /\ calls'[c].heads + calls'[c].gets > calls[c].heads + calls[c].gets )
             => calls'[c].probes = calls[c].probes
          /\ calls'[c].probed = CallFailed => calls'[c].pc = "done"]_vars

\* C28: the request of a resource HEAD call carries the method code 0 and
\* the request of a resource GET call carries the method code 1
C28_MethodCodes ==
    [][\A c \in Callers :
          /\ calls'[c].heads > calls[c].heads => calls'[c].sent = 0
          /\ calls'[c].gets > calls[c].gets => calls'[c].sent = 1]_vars

CallHasFailed(call) ==
    \/ call.host = NoHost
    \/ call.probed = CallFailed
    \/ call.attribution.failed
    \/ call.raw >= 0 /\ (call.raw < 200 \/ call.raw > 599 \/ call.raw \in NullBodyStatus)

\* C30: a module-level fetch of a wttp: URL never ends rejected, and after
\* any failure it ends with a Response of status 500 with a WTTP-Error header
C30_ModuleFetchNeverRejects ==
    \A c \in Callers :
        ( /\ calls[c].pc = "done"
          /\ Scheme(calls[c].args.url) = "wttp"
          /\ UrlParses(calls[c].args.url) )
        => /\ calls[c].result.kind = "response"
           /\ CallHasFailed(calls[c]) =>
                 /\ calls[c].result.status = 500
                 /\ calls[c].headers.wttpError # <<>>

====
